---- MODULE Spec2Model ----
(***************************************************************************)
(* A model of the soundreinforcements package: the geometry of space.py,   *)
(* the Air object of air.py, the level conversions of level.py and         *)
(* levelmaths.py, the attenuation terms of attenuations.py and the         *)
(* receivers of receivers.py.                                              *)
(*                                                                         *)
(* Numbers.  The package computes in IEEE floating point (numpy).  The     *)
(* model computes in fixed point on integers, the unit stated at each      *)
(* definition:                                                             *)
(*     lengths       centimetres       levels        centi-decibels        *)
(*     power         microwatts        pressure      micropascals          *)
(*     absorption    1e-4 dB/m         unit vectors  thousandths           *)
(* A numpy result that is not a finite number (nan, inf, -inf) is kept as  *)
(* such: numpy returns it with a RuntimeWarning and raises nothing.        *)
(***************************************************************************)
EXTENDS Integers, Sequences, FiniteSets, TLC

VARIABLES
    air,        \* the Air instance: _temp, _hum, _atm, _props, _freqs
    airLast,    \* the last operation on the Air instance and how it ended
    recalc,     \* consecutive recalculations of the Air, and the first one's result
    ori,        \* the _values of one Orientation instance
    oriLast,    \* the last operation on the Orientation and how it ended
    oriOps,     \* number of operations applied to the Orientation
    lvl,        \* the last call of a level / attenuation function
    src,        \* the Source: position and power
    grid,
    gridCall,   \* the arguments the ReceiversGrid was constructed with       \* the ReceiversGrid: xs, ys, z and recsgrids
    last,       \* the last receiver / grid call and its result
    round,      \* the per-receiver results since the state round.src, round.recs
    heap,       \* the Coordinate / Orientation objects that exist, by identity
    objs,       \* the Object3D instances: which objects are _pos and _ori
    objLast     \* the last operation on the objects and how it ended

vars == <<air, airLast, recalc, ori, oriLast, oriOps, lvl, src, grid, gridCall, last,
          round, heap, objs, objLast>>

-----------------------------------------------------------------------------
(* Floating point values: a finite fixed-point number, or nan / inf / -inf *)

Fin(v) == [v |-> v, k |-> "fin"]
NaN    == [v |-> 0, k |-> "nan"]
PInf   == [v |-> 0, k |-> "inf"]
NInf   == [v |-> 0, k |-> "-inf"]

IsFin(a) == a.k = "fin"

NumNeg(a) ==
    CASE a.k = "fin"  -> Fin(0 - a.v)
      [] a.k = "inf"  -> NInf
      [] a.k = "-inf" -> PInf
      [] OTHER        -> NaN

NumAdd(a, b) ==
    CASE a.k = "nan" \/ b.k = "nan"    -> NaN
      [] a.k = "fin" /\ b.k = "fin"    -> Fin(a.v + b.v)
      [] a.k = "fin"                   -> b
      [] b.k = "fin"                   -> a
      [] a.k = b.k                     -> a
      [] OTHER                         -> NaN

NumSub(a, b) == NumAdd(a, NumNeg(b))

NumAbs(a) ==
    CASE a.k = "fin"  -> Fin(IF a.v < 0 THEN 0 - a.v ELSE a.v)
      [] a.k = "nan"  -> NaN
      [] OTHER        -> PInf

(* floor of the square root, by bisection *)
RECURSIVE SqrtSearch(_, _, _)
SqrtSearch(n, lo, hi) ==
    IF lo >= hi THEN lo
    ELSE LET mid == (lo + hi + 1) \div 2
         IN  IF mid * mid <= n THEN SqrtSearch(n, mid, hi)
                               ELSE SqrtSearch(n, lo, mid - 1)

ISqrt(n) == SqrtSearch(n, 0, IF n < 46340 THEN n ELSE 46340)

(* a / b rounded to the nearest integer, halves away from zero; b > 0 *)
DivRound(a, b) ==
    IF a >= 0 THEN (2 * a + b) \div (2 * b)
              ELSE 0 - ((2 * (0 - a) + b) \div (2 * b))

(* log10(n / d) in thousandths, n > 0, d > 0: the decade by normalising    *)
(* the mantissa into [1, 10), then three decimal digits, each the decade   *)
(* of the tenth power of the mantissa left by the digit before.            *)
RECURSIVE LogNorm(_, _, _)
LogNorm(n, d, e) ==
    IF n < d THEN
        IF n <= 200000000 THEN LogNorm(10 * n, d, e - 1)
                          ELSE LogNorm(n, d \div 10, e - 1)
    ELSE IF n \div 10 >= d THEN
        IF d <= 200000000 THEN LogNorm(n, 10 * d, e + 1)
                          ELSE LogNorm(n \div 10, d, e + 1)
    ELSE <<IF n <= 2000000 THEN (1000 * n) \div d ELSE n \div (d \div 1000), e>>

RECURSIVE PowDigits(_, _, _, _)
PowDigits(y, m, k, d) ==
    IF k = 0 THEN <<y, d>>
    ELSE LET y2 == (y * m) \div 1000
         IN  IF y2 >= 10000 THEN PowDigits(y2 \div 10, m, k - 1, d + 1)
                            ELSE PowDigits(y2, m, k - 1, d)

Log10m(n, d) ==
    LET nm == LogNorm(n, d, 0)
        p1 == PowDigits(1000, nm[1], 10, 0)
        p2 == PowDigits(1000, p1[1], 10, 0)
        p3 == PowDigits(1000, p2[1], 10, 0)
    IN  1000 * nm[2] + 100 * p1[2] + 10 * p2[2] + p3[2]

(* numpy.log10 of n / d (d > 0): -inf at zero, nan below zero *)
NpLog10m(n, d) ==
    IF n > 0 THEN Fin(Log10m(n, d))
    ELSE IF n = 0 THEN NInf
    ELSE NaN

(* exp(-x / 1000) scaled by 1e9, x >= 0: whole units through e^-1 = 0.368, *)
(* the fraction through the alternating series                             *)
RECURSIVE ExpTaylor(_, _, _, _)
ExpTaylor(f, term, k, acc) ==
    IF k > 8 \/ term = 0 THEN acc
    ELSE LET t == ((term \div 1000) * f) \div k
         IN  ExpTaylor(f, t, k + 1, IF k % 2 = 1 THEN acc - t ELSE acc + t)

RECURSIVE ExpNeg9(_)
ExpNeg9(x) ==
    IF x >= 30000 THEN 0
    ELSE IF x >= 1000 THEN (ExpNeg9(x - 1000) \div 1000) * 368
    ELSE ExpTaylor(x, 1000000000, 1, 1000000000)

(* a * f / 1e6 without leaving 32 bits; a < 1e9, f < 3e6 *)
MulMillionths(a, f) ==
    (a \div 1000) * (f \div 1000) + ((a \div 1000) * (f % 1000)) \div 1000
        + ((a % 1000) * (f \div 1000)) \div 1000

(* exp(-f / 1e6) scaled by 1e8, 0 <= f < 2.4e6, by the alternating series *)
RECURSIVE ExpSeries(_, _, _, _)
ExpSeries(f, term, k, acc) ==
    IF k > 30 \/ term = 0 THEN acc
    ELSE LET t == MulMillionths(term, f) \div k
         IN  ExpSeries(f, t, k + 1, IF k % 2 = 1 THEN acc - t ELSE acc + t)

(* 10**(m / n) scaled by 1e7, 0 <= m < n: 10 * exp(-(1 - m/n) * ln 10) *)
Pow10(m, n) ==
    IF m = 0 THEN 10000000
    ELSE ExpSeries(10 * (((n - m) * 230258) \div n) + ((n - m) * 5) \div n,
                   100000000, 1, 100000000)

(* v * 10**e *)
RECURSIVE ScaleDec(_, _)
ScaleDec(v, e) ==
    IF e = 0 THEN v
    ELSE IF e > 0 THEN ScaleDec(10 * v, e - 1)
    ELSE ScaleDec(v \div 10, e + 1)

-----------------------------------------------------------------------------
(* level.py / levelmaths.py: the level conversions                         *)

(* numpy.round(dBvalue, 1): to a tenth of a decibel, halves to even *)
RoundHalfEven10(v) ==
    LET quo == v \div 10
        rem == v % 10
    IN  IF rem < 5 THEN 10 * quo
        ELSE IF rem > 5 THEN 10 * (quo + 1)
        ELSE IF quo % 2 = 0 THEN 10 * quo ELSE 10 * (quo + 1)

dB_round(dBvalue) ==
    IF IsFin(dBvalue) THEN Fin(RoundHalfEven10(dBvalue.v)) ELSE dBvalue

(* 20*log10(pressure / 2e-5); pressure in micropascals, 2e-5 Pa = 20 uPa *)
spl_from_pressure(pressure) ==
    LET l == NpLog10m(pressure, 20)
    IN  dB_round(IF IsFin(l) THEN Fin(2 * l.v) ELSE l)

(* 10*log10(power / 1e-12); power in microwatts, 1 uW / 1e-12 W = 1e6 *)
swl_from_power(power) ==
    LET l == NpLog10m(power, 1)
    IN  dB_round(IF IsFin(l) THEN Fin(l.v + 6000) ELSE l)

(* 10*log10(intensity / 1e-12); intensity in microwatts per square metre *)
sil_from_intensity(intensity) ==
    LET l == NpLog10m(intensity, 1)
    IN  dB_round(IF IsFin(l) THEN Fin(l.v + 6000) ELSE l)

(* 20*log10(pressure / 2e-5) as it is before dB_round *)
spl_unrounded(pressure) ==
    LET l == NpLog10m(pressure, 20)
    IN  IF IsFin(l) THEN Fin(2 * l.v) ELSE l

(* 2e-5 * 10**(spl / 20) in micropascals, spl in centi-dB (finite) *)
pressure_from_spl(spl) ==
    ScaleDec(2 * Pow10(spl % 2000, 2000), (spl \div 2000) - 6)

(* 1e-12 * 10**(swl / 10) in microwatts, swl in centi-dB (finite) *)
power_from_swl(swl) ==
    ScaleDec(Pow10(swl % 1000, 1000), (swl \div 1000) - 13)

(* 1e-12 * 10**(sil / 10) in microwatts per square metre *)
intensity_from_sil(sil) ==
    ScaleDec(Pow10(sil % 1000, 1000), (sil \div 1000) - 13)

(* 4*pi*distance**2 in square centimetres, distance in centimetres *)
SphereArea(distance) ==
    LET d2 == distance * distance
    IN  IF d2 <= 170000 THEN (12566 * d2) \div 1000 ELSE (d2 \div 100) * 1257

(* A call's outcome: a returned value, or the exception raised *)
Returned(v) == [err |-> "", val |-> v]
Raised(e)   == [err |-> e, val |-> NaN]

(* x / 0 : Python numbers raise ZeroDivisionError; numpy numbers give inf  *)
(* (nan for 0 / 0) with a RuntimeWarning                                   *)
DivByZero(num, isNumpy) ==
    IF ~isNumpy THEN Raised("ZeroDivisionError")
    ELSE Returned(IF num > 0 THEN PInf ELSE IF num < 0 THEN NInf ELSE NaN)

(* power / (4*pi*distance**2), in microwatts per square metre.  isNumpy:   *)
(* power or distance is a numpy value rather than a Python float           *)
intensity_from_power(power, distance, isNumpy) ==
    IF distance = 0 THEN DivByZero(power, isNumpy)
    ELSE Returned(Fin(DivRound(10000 * power, SphereArea(distance))))

(* levelmaths.spl_from_swl: swl - |10*log10(Q / (4*pi*distance**2))|,      *)
(* swl in centi-dB, Q in tenths, distance in centimetres                   *)
levelmaths_spl_from_swl(swl, Q, distance, isNumpy) ==
    LET area  == SphereArea(distance)
        ratio == IF distance = 0 THEN DivByZero(Q, isNumpy)
                 ELSE Returned(NpLog10m(1000 * Q, area))
    IN  IF ratio.err # "" THEN ratio
        ELSE Returned(dB_round(NumSub(Fin(swl), NumAbs(ratio.val))))

-----------------------------------------------------------------------------
(* attenuations.py                                                         *)

(* Adiv = 20*log10(r) + 11, r in centimetres *)
divergence(r) ==
    LET l == NpLog10m(r, 100)
    IN  IF IsFin(l) THEN Fin(2 * l.v + 1100) ELSE l

(* Aatm = a * r, elementwise over the bands; a in 1e-4 dB/m, r in cm *)
atmosphere(a, r) == [i \in 1..Len(a) |-> (a[i] * r) \div 10000]

(* dp(d) = 1 - exp(-d / 50), scaled by 1000 *)
dp(d) == (1000000000 - ExpNeg9(d \div 5)) \div 1000000

(* exp(-c * h**2) scaled by 1000; c in thousandths, h in metres *)
ExpH(c, h2) == ExpNeg9(c * h2) \div 1000000

(* the c-terms in centi-dB; h in metres, d in centimetres *)
c125(h, d) ==
    150 + (3 * ExpH(120, (h - 5) * (h - 5)) * dp(d)) \div 10000
        + (57 * ExpH(90, h * h)
              * (1000 - ExpNeg9((((d * d) \div 10000) * 28) \div 10000) \div 1000000))
          \div 100000

c250(h, d) == 150 + (86 * ExpH(90, h * h) * dp(d)) \div 100000

c500(h, d) == 150 + (14 * ExpH(460, h * h) * dp(d)) \div 10000

c1000(h, d) == 150 + (5 * ExpH(900, h * h) * dp(d)) \div 10000

(* q without the test d > m: 1 - 30*(hr + hs)/d wherever it is defined *)
q_untested(hr, hs, d) ==
    IF d = 0 THEN 0 ELSE 1000 - (3000000 * (hr + hs)) \div d

(* q = 1 - 30*(hr + hs)/d if d > 30*(hr + hs) else 0, scaled by 1000 *)
q(hr, hs, d) ==
    LET m == 3000 * (hr + hs)
    IN  IF d > m THEN 1000 - (1000 * m) \div d ELSE 0

(* As or Ar: the eight octave bands 63 Hz .. 8 kHz; G in tenths *)
GroundSide(G, h, d) ==
    << -150,
       -150 + (G * c125(h, d)) \div 10,
       -150 + (G * c250(h, d)) \div 10,
       -150 + (G * c500(h, d)) \div 10,
       -150 + (G * c1000(h, d)) \div 10,
       -15 * (10 - G), -15 * (10 - G), -15 * (10 - G) >>

(* Am = -3 * q * [1, 1 - Gm, ... (7 times)] in centi-dB *)
GroundMean(hr, hs, d, meanG) ==
    [i \in 1..8 |-> IF i = 1 THEN 0 - (3 * q(hr, hs, d)) \div 10
                    ELSE 0 - (3 * q(hr, hs, d) * (10 - meanG)) \div 100]

(* Agr = Ar + As + Am, with the distance over the ground and the heights   *)
(* that level.spl_from_swl passes                                          *)
ground(distgr, srch, srcG, rech, recG, meanG) ==
    LET Ar == GroundSide(recG, rech, distgr)
        As == GroundSide(srcG, srch, distgr)
        Am == GroundMean(rech, srch, distgr, meanG)
    IN  [i \in 1..8 |-> Ar[i] + As[i] + Am[i]]

(* numpy broadcasting of two one-dimensional operands under a - b *)
CanBroadcast(a, b) == Len(a) = Len(b) \/ Len(a) = 1 \/ Len(b) = 1

BroadcastSub(a, b) ==
    LET n == IF Len(a) >= Len(b) THEN Len(a) ELSE Len(b)
    IN  [i \in 1..n |-> NumSub(a[IF Len(a) = 1 THEN 1 ELSE i],
                               b[IF Len(b) = 1 THEN 1 ELSE i])]

FinSeq(s) == [i \in 1..Len(s) |-> Fin(s[i])]

ShapeError == [err |-> "ValueError", val |-> <<>>]

(* level.spl_from_swl: dB_round(swl - Adiv - Aatm - Agr), evaluated left   *)
(* to right.  swl: the levels per band (floating point values).            *)
(* ValueError when numpy cannot broadcast two operands together.           *)
spl_from_swl(swl, dist, distgr, srch, srcG, rech, recG, meanG, airabs) ==
    LET Adiv == divergence(dist)
        Aatm == FinSeq(atmosphere(airabs, dist))
        Agr  == FinSeq(ground(distgr, srch, srcG, rech, recG, meanG))
        s1   == [i \in 1..Len(swl) |-> NumSub(swl[i], Adiv)]
        s2   == BroadcastSub(s1, Aatm)
        s3   == BroadcastSub(s2, Agr)
    IN  IF ~CanBroadcast(s1, Aatm) THEN ShapeError
        ELSE IF ~CanBroadcast(s2, Agr) THEN ShapeError
        ELSE [err |-> "", val |-> [i \in 1..Len(s3) |-> dB_round(s3[i])]]

-----------------------------------------------------------------------------
(* air.py: the Air object                                                  *)

(* Air.get_properties, temp in degrees Celsius, hum in percent, atm in Pa. *)
(* Units of the result: soundSpeed dm/s, density g/m3, viscosity 1e-11     *)
(* Ns/m2, thermalConduct mW/(mK), specHeatRatio and prandtl thousandths,   *)
(* specHeatCP and specHeatCV 0.1 J/(kg K), impedance rayl.  The dictionary *)
(* returned has no absorption entries: hasAbsorb is FALSE.                 *)
get_properties(temp, hum, atm) ==
    LET T          == temp + 273
        T3         == T * T * T
        Pierce     == (658 * (T3 \div 100)) \div 100 - (5376 * T * T) \div 100
                      + 14704 * T - 1345485
        viscos     == 7725 * T - (595 * T * T) \div 100 + (27 * T3) \div 10000
        constPress == (4169 * (249679 - (7552 * T) \div 100 + (169 * T * T) \div 1000
                               - (65 * (T3 \div 1000)) \div 1000)) \div 100000
        constVol   == constPress - 2870
        Prandtl    == ((viscos \div 100) * constPress) \div 260000
        expans     == (1000 * constPress) \div constVol
        dens       == (1000 * atm) \div (287 * T)
                      - (1317 * hum * (Pierce \div 100)) \div (1000 * T)
        velSom     == ISqrt(100 * ((expans * atm) \div dens))
    IN  [soundSpeed |-> velSom, density |-> dens, viscosity |-> viscos,
         thermalConduct |-> 26, specHeatRatio |-> expans, prandtl |-> Prandtl,
         specHeatCP |-> constPress, specHeatCV |-> constVol,
         impedance |-> (velSom * dens) \div 10000,
         hasAbsorb |-> FALSE, absorb |-> <<>>, absorb_dB |-> <<>>]

(* exp(x / 1000) scaled by 1000, for x of either sign *)
ExpSigned(x) ==
    IF x >= 0 THEN 1000000000 \div (ExpNeg9(x) \div 1000)
              ELSE ExpNeg9(0 - x) \div 1000000

(* The absorption of one band, in 1e-7 1/m (alpha of Air.get_absorption).  *)
(* Temperatures in tenths of a kelvin; h in thousandths of a percent; the  *)
(* relaxation frequencies in Hz.  (T0/T)**(1/3) - 1 is taken to first      *)
(* order, -ln(T/T0)/3.                                                     *)
AbsorptionAlpha(temp, hum, atm, f) ==
    LET T      == 10 * temp + 2732
        Csat   == 4615 - (68346 * (ExpNeg9((2904 * Log10m(T, 2732)) \div 1000)
                                   \div 1000000)) \div 10000
        rhosat == ExpNeg9(((0 - Csat) * 2303) \div 1000)
        h      == ((((rhosat \div 1000) * hum) \div 1000) * 1013) \div (atm \div 100)
        sq     == ISqrt((293200000 \div T) * 10)
        u      == (Log10m(T, 2932) * 2303) \div 1000
        FrN2   == ((((9 + (((28 * h) \div 100) * ExpSigned((139 * u) \div 100)) \div 1000)
                     * sq) \div 1000) * (atm \div 100)) \div 1013
        FrO2   == ((24 + (((404 * h) \div 10) * ((1000 * (20 + h)) \div (391 + h)))
                         \div 1000) * (atm \div 100)) \div 1013
        f2     == f * f
        denN   == f2 \div 1000 + (FrN2 \div 100) * (FrN2 \div 100) * 10
        denO   == f2 \div 1000 + (FrO2 \div 100) * (FrO2 \div 100) * 10
        eN     == (1068 * ExpNeg9(33520000 \div T)) \div 10000
        eO     == (1278 * ExpNeg9(22931000 \div T)) \div 100000
        relN   == ((((f2 \div 1000) * eN) \div (IF denN = 0 THEN 1 ELSE denN)) * FrN2)
                  \div 100
        relO   == ((((f2 \div 1000) * (eO \div 10)) \div (IF denO = 0 THEN 1 ELSE denO))
                   * FrO2) \div 10
        r      == 2932000 \div T
        pw     == (((r * r) \div 1000) * sq) \div 1000
        class  == ((((((f2 \div 1000) * 184) \div 1000) * 1000) \div sq) * 1013)
                  \div (atm \div 100)
    IN  class + (pw * (relN + relO)) \div 1000

(* Air.get_absorption: (absorp_m, absorp_dBm), elementwise over freq, in   *)
(* the order of freq.  absorp_dBm = 20*alpha/ln(10) in 1e-4 dB/m;          *)
(* absorp_m = absorp_dBm / (20*log10(e)) in 1e-7 1/m.                      *)
get_absorption(temp, hum, atm, freq) ==
    LET dBm == [i \in 1..Len(freq) |->
                   (AbsorptionAlpha(temp, hum, atm, freq[i]) * 869) \div 100000]
    IN  [absorp_m   |-> [i \in 1..Len(freq) |-> (dBm[i] * 100000) \div 869],
         absorp_dBm |-> dBm]

(* A value handed to a setter: a Python float or int (num), or not *)
Number(v)  == [v |-> v, num |-> TRUE]
NotANumber == [v |-> 0, num |-> FALSE]

AirOutcome(e, a) == [err |-> e, air |-> a]

(* A temperature setter whose range is open: the boundaries 0 and 50 are   *)
(* refused                                                                 *)
temperature_setter_open(a, temp) ==
    IF ~temp.num THEN AirOutcome("TypeError", a)
    ELSE IF temp.v <= 0 \/ temp.v >= 50 THEN AirOutcome("ValueError", a)
    ELSE AirOutcome("", [a EXCEPT !.temp = temp.v])

(* Air.temperature setter *)
temperature_setter(a, temp) ==
    IF ~temp.num THEN AirOutcome("TypeError", a)
    ELSE IF temp.v < 0 \/ temp.v > 50 THEN AirOutcome("ValueError", a)
    ELSE AirOutcome("", [a EXCEPT !.temp = temp.v])

(* Air.humidity setter *)
humidity_setter(a, hum) ==
    IF ~hum.num THEN AirOutcome("TypeError", a)
    ELSE IF hum.v < 0 \/ hum.v > 100 THEN AirOutcome("ValueError", a)
    ELSE AirOutcome("", [a EXCEPT !.hum = hum.v])

(* An atmPressure setter that recomputes the derived properties itself *)
atmPressure_setter_recomputing(a, atm) ==
    IF ~atm.num THEN AirOutcome("TypeError", a)
    ELSE IF atm.v < 90000 \/ atm.v > 115000 THEN AirOutcome("ValueError", a)
    ELSE AirOutcome("", [a EXCEPT !.atm = atm.v,
                                  !.props = get_properties(a.temp, a.hum, atm.v)])

(* Air.atmPressure setter *)
atmPressure_setter(a, atm) ==
    IF ~atm.num THEN AirOutcome("TypeError", a)
    ELSE IF atm.v < 90000 \/ atm.v > 115000 THEN AirOutcome("ValueError", a)
    ELSE AirOutcome("", [a EXCEPT !.atm = atm.v])

(* Air.calc_properties: a new _props dictionary from get_properties *)
calc_properties(a) ==
    [a EXCEPT !.props = get_properties(a.temp, a.hum, a.atm)]

(* A calc_absorption that appends the bands to the ones already stored *)
calc_absorption_appending(a, freqs) ==
    LET all == a.freqs \o freqs
        ab  == get_absorption(a.temp, a.hum, a.atm, all)
    IN  [a EXCEPT !.freqs = all,
                  !.props = [a.props EXCEPT !.hasAbsorb = TRUE,
                                            !.absorb = ab.absorp_m,
                                            !.absorb_dB = ab.absorp_dBm]]

(* Air.calc_absorption: keeps freqs and stores both absorption arrays in   *)
(* the _props dictionary                                                   *)
calc_absorption(a, freqs) ==
    LET ab == get_absorption(a.temp, a.hum, a.atm, freqs)
    IN  [a EXCEPT !.freqs = freqs,
                  !.props = [a.props EXCEPT !.hasAbsorb = TRUE,
                                            !.absorb = ab.absorp_m,
                                            !.absorb_dB = ab.absorp_dBm]]

(* Air.absorption(unit): a missing dictionary key is a KeyError *)
absorption(a, unit) ==
    IF unit \notin {"1/m", "dB/m"} THEN [err |-> "ValueError", val |-> <<>>]
    ELSE IF ~a.props.hasAbsorb THEN [err |-> "KeyError", val |-> <<>>]
    ELSE [err |-> "", val |-> IF unit = "1/m" THEN a.props.absorb
                                               ELSE a.props.absorb_dB]

(* The object before __init__ has run: no attribute is set *)
AirBlank == [temp |-> 0,
             hum |-> 0,
             atm |-> 0,
             props |-> [get_properties(20, 50, 101325) EXCEPT !.soundSpeed = 0],
             freqs |-> <<>>]

(* Air.__init__: the three setters, then calc_properties, calc_absorption. *)
(* An exception of a setter leaves no instance (air is AirBlank).          *)
Air__init__(temp, hum, atm, freqs) ==
    LET s1 == temperature_setter(AirBlank, temp)
        s2 == humidity_setter(s1.air, hum)
        s3 == atmPressure_setter(s2.air, atm)
    IN  IF s1.err # "" THEN AirOutcome(s1.err, AirBlank)
        ELSE IF s2.err # "" THEN AirOutcome(s2.err, AirBlank)
        ELSE IF s3.err # "" THEN AirOutcome(s3.err, AirBlank)
        ELSE AirOutcome("", calc_absorption(calc_properties(s3.air), freqs))

-----------------------------------------------------------------------------
(* space.py: Coordinate and the distances.  A Coordinate is its _values    *)
(* array <<x, y, z>>, in metres.                                           *)

(* Coordinate.__sub__: a new Coordinate, the operands are left alone *)
Coordinate__sub__(self, other) == [i \in 1..3 |-> self[i] - other[i]]

(* Coordinate.__abs__, in centimetres *)
Coordinate__abs__(self) ==
    ISqrt(10000 * (self[1] * self[1] + self[2] * self[2] + self[3] * self[3]))

(* distance(p1, p2) = abs(p2 - p1) *)
distance(p1, p2) == Coordinate__abs__(Coordinate__sub__(p2, p1))

(* The axis that `plane` leaves out; 0 for a plane that is none of the     *)
(* three (no branch of the if / elif chain is taken)                       *)
PlaneAxis(plane) ==
    CASE plane = "xy" -> 3
      [] plane = "xz" -> 2
      [] plane = "yz" -> 1
      [] OTHER        -> 0

(* p1coord = p1()[:] is a basic slice of the numpy array p1._values: a     *)
(* view on the same buffer, so the assignment p1coord[k] = 0. writes into  *)
(* p1._values itself (and likewise for p2).                                *)
ZeroAxis(p, plane) ==
    [i \in 1..3 |-> IF i = PlaneAxis(plane) THEN 0 ELSE p[i]]

(* distance_over_plane: the distance returned and the _values of p1 and    *)
(* p2 when it returns                                                      *)
distance_over_plane(plane, p1, p2) ==
    [dist |-> distance(ZeroAxis(p1, plane), ZeroAxis(p2, plane)),
     p1   |-> ZeroAxis(p1, plane),
     p2   |-> ZeroAxis(p2, plane)]

-----------------------------------------------------------------------------
(* sources.py and receivers.py                                             *)

(* Source.swl: swl_from_power over the power array *)
Source_swl(power) == [i \in 1..Len(power) |-> swl_from_power(power[i])]

(* Receiver.distance_from_source *)
distance_from_source(recpos, srcpos) == distance(recpos, srcpos)

(* Receiver.ground_distance_from_source *)
ground_distance_from_source(recpos, srcpos) ==
    distance_over_plane("xy", recpos, srcpos)

(* The geometry Receiver.spl_from_source hands to spl_from_swl: dist and   *)
(* distgr are computed first, then source.position.z and self.position.z   *)
(* are read; rpos and spos are the two positions after that                *)
GeometryPassed(recpos, srcpos) ==
    LET dist == distance_from_source(recpos, srcpos)
        gr   == ground_distance_from_source(recpos, srcpos)
    IN  [dist |-> dist, distgr |-> gr.dist, srch |-> gr.p2[3], rech |-> gr.p1[3],
         rpos |-> gr.p1, spos |-> gr.p2]

(* Receiver.spl_from_source: the result, and the receiver's and the        *)
(* source's position when it returns.  The heights handed to spl_from_swl  *)
(* are read after ground_distance_from_source has run.                     *)
spl_from_source(recpos, source, a) ==
    LET g      == GeometryPassed(recpos, source.pos)
        airabs == absorption(a, "dB/m")
    IN  [res  |-> IF airabs.err # "" THEN airabs
                  ELSE spl_from_swl(Source_swl(source.power), g.dist, g.distgr,
                                    g.srch, 6, g.rech, 8, 5, airabs.val),
         rpos |-> g.rpos,
         spos |-> g.spos]

(* numpy.arange(lo, hi, step) for whole numbers, step > 0 *)
Arange(lo, hi, step) ==
    [i \in 1..(IF hi > lo THEN (hi - lo + step - 1) \div step ELSE 0)
        |-> lo + (i - 1) * step]

(* generate_grid without its first statement, self.recsgrids = [] *)
generate_grid_accumulating(g) ==
    [g EXCEPT !.recsgrids =
        g.recsgrids \o
        [i \in 1..Len(g.ys) |-> [j \in 1..Len(g.xs) |-> <<g.xs[j], g.ys[i], g.z>>]]]

(* ReceiversGrid.generate_grid: one row per y, one receiver per x *)
generate_grid(g) ==
    [g EXCEPT !.recsgrids =
        [i \in 1..Len(g.ys) |-> [j \in 1..Len(g.xs) |-> <<g.xs[j], g.ys[i], g.z>>]]]

(* the arguments of ReceiversGrid(minx, maxx, dx, miny, maxy, dy, z, air) *)
GridCall(minx, maxx, dx, miny, maxy, dy, z) ==
    [z |-> z, minx |-> minx, maxx |-> maxx, dx |-> dx,
     miny |-> miny, maxy |-> maxy, dy |-> dy]

(* ReceiversGrid.__init__ *)
ReceiversGrid__init__(minx, maxx, dx, miny, maxy, dy, z) ==
    generate_grid([xs |-> Arange(minx, maxx, dx), ys |-> Arange(miny, maxy, dy),
                   z |-> z, recsgrids |-> <<>>])

GridRows(g) == Len(g.recsgrids)
GridCols(g) == IF Len(g.recsgrids) = 0 THEN 0 ELSE Len(g.recsgrids[1])
GridIndex(g) == (1..GridRows(g)) \X (1..GridCols(g))

NoResult == [err |-> "none", val |-> <<>>]

(* ReceiversGrid.eval_spl from receiver number k on, row by row: the       *)
(* results so far, and the positions the calls leave behind.  An exception *)
(* of spl_from_source ends the evaluation.                                 *)
RECURSIVE EvalSplFrom(_, _, _, _, _)
EvalSplFrom(k, recs, source, a, out) ==
    LET cols == IF Len(recs) = 0 THEN 0 ELSE Len(recs[1])
        i    == (k - 1) \div cols + 1
        j    == ((k - 1) % cols) + 1
        r    == spl_from_source(recs[i][j], source, a)
    IN  IF cols = 0 \/ k > Len(recs) * cols
        THEN [err |-> "", out |-> out, recs |-> recs, spos |-> source.pos]
        ELSE IF r.res.err # ""
        THEN [err |-> r.res.err, out |-> out,
              recs |-> [recs EXCEPT ![i][j] = r.rpos], spos |-> r.spos]
        ELSE EvalSplFrom(k + 1, [recs EXCEPT ![i][j] = r.rpos],
                         [source EXCEPT !.pos = r.spos], a,
                         [out EXCEPT ![i][j] = r.res])

(* eval_spl with the loops exchanged: x outer, y inner *)
eval_spl_x_outer(g, source, a) ==
    LET turned == [j \in 1..GridCols(g) |-> [i \in 1..GridRows(g) |-> g.recsgrids[i][j]]]
        r      == EvalSplFrom(1, turned, source, a,
                      [j \in 1..GridCols(g) |-> [i \in 1..GridRows(g) |-> NoResult]])
    IN  [r EXCEPT !.recs = [i \in 1..GridRows(g) |->
                               [j \in 1..GridCols(g) |-> r.recs[j][i]]]]

eval_spl(g, source, a) ==
    EvalSplFrom(1, g.recsgrids, source, a,
                [i \in 1..GridRows(g) |-> [j \in 1..GridCols(g) |-> NoResult]])

-----------------------------------------------------------------------------
(* Bounds and input sets                                                   *)

MaxGridX  == 2    \* columns of the grid: 1..MaxGridX
MaxGridY  == 2    \* rows of the grid: 1..MaxGridY
MaxHeight == 2    \* heights (z) of source and grid: 0..MaxHeight
MaxSrcX   == 1    \* the source stands at x in 0..MaxSrcX
MaxRecalc == 2    \* consecutive recalculations of the Air that are counted
MaxOriOps == 2    \* operations applied to one Orientation

Octaves6 == <<125, 250, 500, 1000, 2000, 4000>>
Octaves8 == <<63, 125, 250, 500, 1000, 2000, 4000, 8000>>
Octaves9 == <<63, 125, 250, 500, 1000, 2000, 4000, 8000, 16000>>

FreqChoices == {<<1000>>, Octaves6, Octaves8}

(* source power per band, microwatts: 0.01 W is a level of 100 dB *)
PowerChoices == {<<10000>>}

(* States of the other objects while one of them is exercised *)
DefaultAir == Air__init__(Number(20), Number(50), Number(101325), Octaves9).air
NoAirCall  == [err |-> "", op |-> "none", args |-> <<>>]
NoRecalc   == [n |-> 0,
               props |-> DefaultAir.props,
               freqs |-> <<>>,
               half |-> FALSE]
NoOri      == <<Fin(1000), Fin(0), Fin(0)>>
NoOriCall  == [err |-> "", op |-> "none", div |-> Fin(10000)]
NoLvl      == [out |-> Returned(NaN),
               args |-> <<>>,
               fn |-> "none",
               np |-> FALSE]
NoSource   == [power |-> <<10000>>, pos |-> <<0, 0, 0>>]
NoGrid     == ReceiversGrid__init__(0, 1, 1, 0, 1, 1, 0)
NoGridCall == GridCall(0, 1, 1, 0, 1, 1, 0)
NoCall     == [i |-> 0, res |-> NoResult, j |-> 0, op |-> "none"]

NewRound(s, g) ==
    [src |-> s.pos, recs |-> g.recsgrids, spl |-> [idx \in GridIndex(g) |-> NoResult]]

-----------------------------------------------------------------------------
(* Receivers and grid: one Source, one ReceiversGrid, one Air              *)

airVars == <<air, airLast, recalc>>
oriVars == <<ori, oriLast, oriOps>>
recVars == <<src, grid, gridCall, last, round>>
objVars == <<heap, objs, objLast>>

NoObjCall == [err |-> "", op |-> "none"]
NoObjects == heap = <<>> /\ objs = <<>> /\ objLast = NoObjCall

Init ==
    /\ \E f \in FreqChoices :
           air = Air__init__(Number(20), Number(50), Number(101325), f).air
    /\ airLast = NoAirCall /\ recalc = NoRecalc
    /\ ori = NoOri /\ oriLast = NoOriCall /\ oriOps = 0
    /\ lvl = NoLvl
    /\ \E x \in 0..MaxSrcX, z \in 0..MaxHeight, p \in PowerChoices :
           src = [power |-> p, pos |-> <<x, 0, z>>]
    /\ \E maxx \in 1..MaxGridX, maxy \in 1..MaxGridY, z \in 0..1 :
           /\ grid = ReceiversGrid__init__(0, maxx, 1, 0, maxy, 1, z)
           /\ gridCall = GridCall(0, maxx, 1, 0, maxy, 1, z)
    /\ last = NoCall
    /\ round = NewRound(src, grid)
    /\ NoObjects

(* rec.distance_from_source(src) for the receiver in row i, column j *)
DistanceFromSource(i, j) ==
    /\ last' = [i |-> i,
                res |-> [err |-> "",
                         val |-> <<Fin(distance_from_source(grid.recsgrids[i][j],
                                                            src.pos))>>],
                j |-> j,
                op |-> "distance_from_source"]
    /\ round' = NewRound(src, grid)
    /\ UNCHANGED <<src, grid, airVars, oriVars, lvl, objVars, gridCall>>

(* rec.ground_distance_from_source(src).  (Here and below the result of    *)
(* the call is bound by \E over a singleton set: it is evaluated once.)    *)
GroundDistanceFromSource(i, j) ==
    \E r \in {ground_distance_from_source(grid.recsgrids[i][j], src.pos)} :
        /\ src' = [src EXCEPT !.pos = r.p2]
        /\ grid' = [grid EXCEPT !.recsgrids[i][j] = r.p1]
        /\ last' = [i |-> i,
                    res |-> [err |-> "", val |-> <<Fin(r.dist)>>],
                    j |-> j,
                    op |-> "ground_distance_from_source"]
        /\ round' = NewRound(src', grid')
        /\ UNCHANGED <<airVars, oriVars, lvl, objVars, gridCall>>

(* rec.spl_from_source(src, air), called on its own.  The result is kept   *)
(* in round.spl; a second evaluation of a receiver starts a new round.     *)
SplFromSource(i, j) ==
    \E r \in {spl_from_source(grid.recsgrids[i][j], src, air)} :
    LET rd == IF round.spl[<<i, j>>] = NoResult THEN round ELSE NewRound(src, grid)
    IN  /\ src' = [src EXCEPT !.pos = r.spos]
        /\ grid' = [grid EXCEPT !.recsgrids[i][j] = r.rpos]
        /\ last' = [i |-> i, res |-> r.res, j |-> j, op |-> "spl_from_source"]
        /\ round' = [rd EXCEPT !.spl[<<i, j>>] = r.res]
        /\ UNCHANGED <<airVars, oriVars, lvl, objVars, gridCall>>

(* grid.eval_spl(src) *)
EvalSpl ==
    \E r \in {eval_spl(grid, src, air)} :
        /\ src' = [src EXCEPT !.pos = r.spos]
        /\ grid' = [grid EXCEPT !.recsgrids = r.recs]
        /\ last' = [i |-> 0,
                    res |-> [err |-> r.err, val |-> r.out],
                    j |-> 0,
                    op |-> "eval_spl"]
        /\ round' = NewRound(src', grid')
        /\ UNCHANGED <<airVars, oriVars, lvl, objVars, gridCall>>

(* grid.generate_grid() *)
GenerateGrid ==
    /\ grid' = generate_grid(grid)
    /\ last' = [i |-> 0, res |-> NoResult, j |-> 0, op |-> "generate_grid"]
    /\ round' = NewRound(src, grid')
    /\ UNCHANGED <<src, airVars, oriVars, lvl, objVars, gridCall>>

Next ==
    \/ \E idx \in GridIndex(grid) : DistanceFromSource(idx[1], idx[2])
    \/ \E idx \in GridIndex(grid) : GroundDistanceFromSource(idx[1], idx[2])
    \/ \E idx \in GridIndex(grid) : SplFromSource(idx[1], idx[2])
    \/ EvalSpl
    \/ GenerateGrid

Spec == Init /\ [][Next]_vars

-----------------------------------------------------------------------------
(* The grid's layout: grids over several rectangles and steps, evaluated   *)
(* and regenerated                                                         *)

GridMins  == {0, 1}
GridMaxs  == {0, 2, 3}
GridSteps == {1, 2}

InitGrid ==
    /\ air = Air__init__(Number(20), Number(50), Number(101325), Octaves8).air
    /\ airLast = NoAirCall /\ recalc = NoRecalc
    /\ ori = NoOri /\ oriLast = NoOriCall /\ oriOps = 0
    /\ lvl = NoLvl
    /\ src = [power |-> <<10000>>, pos |-> <<1, 0, 2>>]
    /\ \E minx \in GridMins, maxx \in GridMaxs, dx \in GridSteps,
          miny \in GridMins, maxy \in GridMaxs, dy \in GridSteps :
           /\ grid = ReceiversGrid__init__(minx, maxx, dx, miny, maxy, dy, 1)
           /\ gridCall = GridCall(minx, maxx, dx, miny, maxy, dy, 1)
    /\ last = NoCall
    /\ round = NewRound(src, grid)
    /\ NoObjects

NextGrid ==
    \/ EvalSpl
    \/ GenerateGrid

SpecGrid == InitGrid /\ [][NextGrid]_vars

-----------------------------------------------------------------------------
(* The Air object: construction, the three setters, the recalculations     *)

TempInputs == {-1, 0, 50, 51}
HumInputs  == {-1, 0, 100, 101}
AtmInputs  == {89999, 90000, 115000, 115001}
AirFreqChoices == {<<1000>>, <<500, 250>>}

ValidTemps == {v \in TempInputs : 0 <= v /\ v <= 50}
ValidHums  == {v \in HumInputs : 0 <= v /\ v <= 100}
ValidAtms  == {v \in AtmInputs : 90000 <= v /\ v <= 115000}

(* arguments of Air(temp, hum, atm): at most one of them out of range *)
ConstructInputs ==
    (TempInputs \X {0} \X {90000}) \cup ({50} \X HumInputs \X {115000})
        \cup ({0} \X {100} \X AtmInputs)

(* __init__ has run calc_properties and calc_absorption(freqs) once *)
Constructed(a) == [n |-> 1,
                   props |-> a.props,
                   freqs |-> a.freqs,
                   half |-> FALSE]

InitAir ==
    /\ \E t \in ValidTemps, h \in ValidHums, a \in ValidAtms, f \in AirFreqChoices :
           /\ air = Air__init__(Number(t), Number(h), Number(a), f).air
           /\ airLast = [err |-> "",
                         op |-> "__init__",
                         args |-> <<Number(t), Number(h), Number(a)>>]
    /\ recalc = Constructed(air)
    /\ ori = NoOri /\ oriLast = NoOriCall /\ oriOps = 0
    /\ lvl = NoLvl
    /\ src = NoSource /\ grid = NoGrid /\ gridCall = NoGridCall /\ last = NoCall
    /\ round = NewRound(src, grid)
    /\ NoObjects

notAirVars == <<oriVars, lvl, recVars, objVars>>

(* air = Air(temp, hum, atm, freqs): the name is bound to the new instance *)
(* only when __init__ returns                                              *)
AirNew(c, freqs) ==
    \E r \in {Air__init__(Number(c[1]), Number(c[2]), Number(c[3]), freqs)} :
        /\ air' = IF r.err = "" THEN r.air ELSE air
        /\ airLast' = [err |-> r.err,
                       op |-> "__init__",
                       args |-> <<Number(c[1]), Number(c[2]), Number(c[3])>>]
        /\ recalc' = IF r.err = "" THEN Constructed(r.air) ELSE recalc
        /\ UNCHANGED notAirVars

(* air.temperature = temp.  A changed base parameter ends the run of       *)
(* recalculations with unchanged inputs.                                   *)
SetTemperature(temp) ==
    \E r \in {temperature_setter(air, temp)} :
        /\ air' = r.air
        /\ airLast' = [err |-> r.err, op |-> "temperature", args |-> <<temp>>]
        /\ recalc' = IF r.air = air THEN recalc ELSE NoRecalc
        /\ UNCHANGED notAirVars

(* air.humidity = hum *)
SetHumidity(hum) ==
    \E r \in {humidity_setter(air, hum)} :
        /\ air' = r.air
        /\ airLast' = [err |-> r.err, op |-> "humidity", args |-> <<hum>>]
        /\ recalc' = IF r.air = air THEN recalc ELSE NoRecalc
        /\ UNCHANGED notAirVars

(* air.atmPressure = atm *)
SetAtmPressure(atm) ==
    \E r \in {atmPressure_setter(air, atm)} :
        /\ air' = r.air
        /\ airLast' = [err |-> r.err, op |-> "atmPressure", args |-> <<atm>>]
        /\ recalc' = IF r.air = air THEN recalc ELSE NoRecalc
        /\ UNCHANGED notAirVars

(* air.calc_properties() *)
CalcProperties ==
    /\ air' = calc_properties(air)
    /\ airLast' = [err |-> "", op |-> "calc_properties", args |-> <<>>]
    /\ recalc' = [recalc EXCEPT !.half = TRUE]
    /\ UNCHANGED notAirVars

(* air.calc_absorption(freqs).  After calc_properties it completes a       *)
(* recalculation: the first one's result is kept, later ones with the same *)
(* frequencies are counted.                                                *)
CalcAbsorption(freqs) ==
    \E a \in {calc_absorption(air, freqs)} :
        /\ air' = a
        /\ airLast' = [err |-> "", op |-> "calc_absorption", args |-> <<>>]
        /\ recalc' =
              IF ~recalc.half THEN NoRecalc
              ELSE IF recalc.n >= 1 /\ freqs = recalc.freqs
              THEN [recalc EXCEPT !.half = FALSE,
                                  !.n = IF recalc.n < MaxRecalc THEN recalc.n + 1
                                                                ELSE MaxRecalc]
              ELSE Constructed(a)
        /\ UNCHANGED notAirVars

NextAir ==
    \/ \E c \in ConstructInputs, f \in AirFreqChoices : AirNew(c, f)
    \/ \E v \in TempInputs : SetTemperature(Number(v))
    \/ \E v \in HumInputs : SetHumidity(Number(v))
    \/ \E v \in AtmInputs : SetAtmPressure(Number(v))
    \/ SetTemperature(NotANumber)
    \/ SetHumidity(NotANumber)
    \/ SetAtmPressure(NotANumber)
    \/ CalcProperties
    \/ \E f \in AirFreqChoices : CalcAbsorption(f)

SpecAir == InitAir /\ [][NextAir]_vars

-----------------------------------------------------------------------------
(* space.py: Orientation.  Components in thousandths, the divisor (the     *)
(* length of the vector being normalised) in ten-thousandths.              *)

(* numpy division of a component by the divisor: x / 0 is inf, 0 / 0 is    *)
(* nan, both with a RuntimeWarning only                                    *)
NumDiv(a, div) ==
    CASE a.k = "nan" \/ div.k = "nan" -> NaN
      [] ~IsFin(a) /\ ~IsFin(div)     -> NaN
      [] ~IsFin(a)                    -> IF div.v < 0 THEN NumNeg(a) ELSE a
      [] ~IsFin(div)                  -> Fin(0)
      [] div.v = 0                    -> IF a.v > 0 THEN PInf
                                         ELSE IF a.v < 0 THEN NInf ELSE NaN
      [] OTHER                        -> Fin(DivRound(10000 * a.v, div.v))

(* sum(vals**2)**0.5 *)
_get_div(vals) ==
    IF \E i \in 1..3 : vals[i].k = "nan" THEN NaN
    ELSE IF \E i \in 1..3 : ~IsFin(vals[i]) THEN PInf
    ELSE Fin(ISqrt(100 * (vals[1].v * vals[1].v + vals[2].v * vals[2].v
                              + vals[3].v * vals[3].v)))

(* Orientation(x, y, z): the components divided by their length *)
Orientation__init__(vals) ==
    LET div == _get_div(vals)
    IN  [vals |-> [i \in 1..3 |-> NumDiv(vals[i], div)], div |-> div]

(* The operand of += / -= : a list (of any length), an Orientation, or a   *)
(* Coordinate that is not an Orientation                                   *)
ListOperand(ints)        == [kind |-> "list", vals |-> [i \in 1..Len(ints) |-> Fin(1000 * ints[i])]]
OrientationOperand(ints) == [kind |-> "Orientation", vals |-> Orientation__init__([i \in 1..3 |-> Fin(1000 * ints[i])]).vals]
CoordinateOperand(ints)  == [kind |-> "Coordinate", vals |-> [i \in 1..3 |-> Fin(1000 * ints[i])]]

(* Coordinate._type_check on an Orientation: a list becomes an Orientation *)
(* (so it is normalised); the message of the ValueError for a foreign type *)
(* reads the unbound local obj                                             *)
_type_check(other) ==
    IF other.kind = "list" THEN
        IF Len(other.vals) # 3 THEN [err |-> "ValueError", vals |-> <<>>]
        ELSE [err |-> "", vals |-> Orientation__init__(other.vals).vals]
    ELSE IF other.kind # "Orientation" THEN [err |-> "UnboundLocalError", vals |-> <<>>]
    ELSE [err |-> "", vals |-> other.vals]

(* self._values = (self._values + obj()) / div *)
Orientation__iadd__(o, other) ==
    LET obj  == _type_check(other)
        vals == [i \in 1..3 |-> NumAdd(o[i], obj.vals[i])]
        div  == _get_div(vals)
    IN  IF obj.err # "" THEN [err |-> obj.err, vals |-> o, div |-> NaN]
        ELSE [err |-> "", vals |-> [i \in 1..3 |-> NumDiv(vals[i], div)], div |-> div]

(* self._values = (self._values - obj()) / div *)
Orientation__isub__(o, other) ==
    LET obj  == _type_check(other)
        vals == [i \in 1..3 |-> NumSub(o[i], obj.vals[i])]
        div  == _get_div(vals)
    IN  IF obj.err # "" THEN [err |-> obj.err, vals |-> o, div |-> NaN]
        ELSE [err |-> "", vals |-> [i \in 1..3 |-> NumDiv(vals[i], div)], div |-> div]

(* Coordinate x / y / z setter, inherited: self._values[axis] = value *)
Coordinate_setter(o, axis, value) == [o EXCEPT ![axis] = Fin(1000 * value)]

OriInputs == {-1, 0, 1}
OriOperands ==
    {ListOperand(v) : v \in {<<1, 0, 0>>, <<-1, 0, 0>>, <<0, 1, 0>>, <<1, 1, 1>>,
                             <<0, 0, 0>>, <<1, 0>>}}
        \cup {OrientationOperand(<<0, 0, 1>>), CoordinateOperand(<<1, 0, 0>>)}

InitOri ==
    /\ \E x \in OriInputs, y \in OriInputs, z \in OriInputs :
         \E r \in {Orientation__init__(<<Fin(1000 * x), Fin(1000 * y), Fin(1000 * z)>>)} :
             /\ ori = r.vals
             /\ oriLast = [err |-> "", op |-> "__init__", div |-> r.div]
    /\ oriOps = 0
    /\ air = DefaultAir /\ airLast = NoAirCall /\ recalc = NoRecalc
    /\ lvl = NoLvl
    /\ src = NoSource /\ grid = NoGrid /\ gridCall = NoGridCall /\ last = NoCall
    /\ round = NewRound(src, grid)
    /\ NoObjects

notOriVars == <<airVars, lvl, recVars, objVars>>

(* orientation.x = value *)
OriSetX(value) ==
    /\ oriOps < MaxOriOps
    /\ ori' = Coordinate_setter(ori, 1, value)
    /\ oriLast' = [err |-> "", op |-> "x", div |-> NaN]
    /\ oriOps' = oriOps + 1
    /\ UNCHANGED notOriVars

(* orientation.y = value *)
OriSetY(value) ==
    /\ oriOps < MaxOriOps
    /\ ori' = Coordinate_setter(ori, 2, value)
    /\ oriLast' = [err |-> "", op |-> "y", div |-> NaN]
    /\ oriOps' = oriOps + 1
    /\ UNCHANGED notOriVars

(* orientation.z = value *)
OriSetZ(value) ==
    /\ oriOps < MaxOriOps
    /\ ori' = Coordinate_setter(ori, 3, value)
    /\ oriLast' = [err |-> "", op |-> "z", div |-> NaN]
    /\ oriOps' = oriOps + 1
    /\ UNCHANGED notOriVars

(* orientation.__iadd__(other) *)
OriIadd(other) ==
    /\ oriOps < MaxOriOps
    /\ \E r \in {Orientation__iadd__(ori, other)} :
           /\ ori' = r.vals
           /\ oriLast' = [err |-> r.err, op |-> "__iadd__", div |-> r.div]
    /\ oriOps' = oriOps + 1
    /\ UNCHANGED notOriVars

(* orientation.__isub__(other) *)
OriIsub(other) ==
    /\ oriOps < MaxOriOps
    /\ \E r \in {Orientation__isub__(ori, other)} :
           /\ ori' = r.vals
           /\ oriLast' = [err |-> r.err, op |-> "__isub__", div |-> r.div]
    /\ oriOps' = oriOps + 1
    /\ UNCHANGED notOriVars

NextOri ==
    \/ \E v \in OriInputs : OriSetX(v)
    \/ \E v \in OriInputs : OriSetY(v)
    \/ \E v \in OriInputs : OriSetZ(v)
    \/ \E other \in OriOperands : OriIadd(other)
    \/ \E other \in OriOperands : OriIsub(other)

SpecOri == InitOri /\ [][NextOri]_vars

-----------------------------------------------------------------------------
(* The level and attenuation formulas called on their own                  *)

LevelInputs    == {-100, 0, 1, 20, 100, 500, 2000}
PowerInputs    == {0, 1000, 10000}
SwlInputs      == {9000, 10000}
QInputs        == {10, 20}

InitLevel ==
    /\ lvl = NoLvl
    /\ air = DefaultAir /\ airLast = NoAirCall /\ recalc = NoRecalc
    /\ ori = NoOri /\ oriLast = NoOriCall /\ oriOps = 0
    /\ src = NoSource /\ grid = NoGrid /\ gridCall = NoGridCall /\ last = NoCall
    /\ round = NewRound(src, grid)
    /\ NoObjects

notLvlVars == <<airVars, oriVars, recVars, objVars>>

SplFromPressure(pressure) ==
    /\ lvl' = [out |-> Returned(spl_from_pressure(pressure)),
               args |-> <<pressure>>,
               fn |-> "spl_from_pressure",
               np |-> FALSE]
    /\ UNCHANGED notLvlVars

SwlFromPower(power) ==
    /\ lvl' = [out |-> Returned(swl_from_power(power)),
               args |-> <<power>>,
               fn |-> "swl_from_power",
               np |-> FALSE]
    /\ UNCHANGED notLvlVars

SilFromIntensity(intensity) ==
    /\ lvl' = [out |-> Returned(sil_from_intensity(intensity)),
               args |-> <<intensity>>,
               fn |-> "sil_from_intensity",
               np |-> FALSE]
    /\ UNCHANGED notLvlVars

Divergence(r) ==
    /\ lvl' = [out |-> Returned(divergence(r)),
               args |-> <<r>>,
               fn |-> "divergence",
               np |-> FALSE]
    /\ UNCHANGED notLvlVars

IntensityFromPower(power, dist, isNumpy) ==
    /\ lvl' = [out |-> intensity_from_power(power, dist, isNumpy),
               args |-> <<power, dist>>,
               fn |-> "intensity_from_power",
               np |-> isNumpy]
    /\ UNCHANGED notLvlVars

SplFromSwl(swl, Q, dist, isNumpy) ==
    /\ lvl' = [out |-> levelmaths_spl_from_swl(swl, Q, dist, isNumpy),
               args |-> <<swl, Q, dist>>,
               fn |-> "spl_from_swl",
               np |-> isNumpy]
    /\ UNCHANGED notLvlVars

(* positive pressures (uPa), powers (uW) and intensities (uW/m2) *)
BackInputs == {200, 1000, 1001, 2000, 3000, 10000, 20000}

(* pressure_from_spl(spl_from_pressure(pressure)): the level and the value *)
(* converted back                                                          *)
PressureRoundTrip(pressure) ==
    \E l \in {spl_from_pressure(pressure)} :
        /\ lvl' = [out |-> Returned([level |-> l, back |-> pressure_from_spl(l.v)]),
                   args |-> <<pressure>>,
                   fn |-> "pressure_from_spl",
                   np |-> FALSE]
        /\ UNCHANGED notLvlVars

PowerRoundTrip(power) ==
    \E l \in {swl_from_power(power)} :
        /\ lvl' = [out |-> Returned([level |-> l, back |-> power_from_swl(l.v)]),
                   args |-> <<power>>,
                   fn |-> "power_from_swl",
                   np |-> FALSE]
        /\ UNCHANGED notLvlVars

IntensityRoundTrip(intensity) ==
    \E l \in {sil_from_intensity(intensity)} :
        /\ lvl' = [out |-> Returned([level |-> l, back |-> intensity_from_sil(l.v)]),
                   args |-> <<intensity>>,
                   fn |-> "intensity_from_sil",
                   np |-> FALSE]
        /\ UNCHANGED notLvlVars

NextLevel ==
    \/ \E v \in BackInputs : PressureRoundTrip(v)
    \/ \E v \in BackInputs : PowerRoundTrip(v)
    \/ \E v \in BackInputs : IntensityRoundTrip(v)
    \/ \E v \in LevelInputs : SplFromPressure(v)
    \/ \E v \in LevelInputs : SwlFromPower(v)
    \/ \E v \in LevelInputs : SilFromIntensity(v)
    \/ \E v \in LevelInputs : Divergence(v)
    \/ \E p \in PowerInputs, d \in LevelInputs, n \in BOOLEAN : IntensityFromPower(p, d, n)
    \/ \E s \in SwlInputs, Q \in QInputs, d \in LevelInputs, n \in BOOLEAN :
           SplFromSwl(s, Q, d, n)

SpecLevel == InitLevel /\ [][NextLevel]_vars

-----------------------------------------------------------------------------
(* The ground term and the conversions back from levels, called on their   *)
(* own                                                                     *)

(* distances over the ground, centimetres *)
DistInputs   == {0, 100, 3000, 3001, 6000, 12000, 12001, 40000}
(* ground factor of the middle region, tenths *)
GroundInputs == {0, 5, 10}

(* ground(...) with the ground factors 0.6 and 0.8 of spl_from_source: the *)
(* q factor, Am and the sum Agr                                            *)
Ground(hr, hs, d, meanG) ==
    /\ lvl' = [out |-> Returned([q |-> q(hr, hs, d),
                                 Am |-> GroundMean(hr, hs, d, meanG),
                                 Agr |-> ground(d, hs, 6, hr, 8, meanG)]),
               args |-> <<hr, hs, d, meanG>>,
               fn |-> "ground",
               np |-> FALSE]
    /\ UNCHANGED notLvlVars

NextAtt ==
    \/ \E hr \in 0..MaxHeight, hs \in 0..MaxHeight, d \in DistInputs,
          meanG \in GroundInputs : Ground(hr, hs, d, meanG)

SpecAtt == InitLevel /\ [][NextAtt]_vars

-----------------------------------------------------------------------------
(* space.distance called on two Coordinates                                *)

(* the distance with p2 -= p1 in place of p2 - p1 *)
distance_in_place(p1, p2) ==
    LET diff == Coordinate__sub__(p2, p1)
    IN  [dist |-> Coordinate__abs__(diff), p1 |-> p1, p2 |-> diff]

(* distance(p1, p2): the value returned and the _values of p1 and p2 when  *)
(* it returns; p2 - p1 is a new Coordinate                                 *)
distance_call(p1, p2) ==
    [dist |-> distance(p1, p2), p1 |-> p1, p2 |-> p2]

PointInputs == {-1, 0, 2} \X {-1, 0, 2} \X {0, 1}

Distance(p1, p2) ==
    /\ lvl' = [out |-> Returned(distance_call(p1, p2)),
               args |-> <<p1, p2>>,
               fn |-> "distance",
               np |-> FALSE]
    /\ UNCHANGED notLvlVars

NextDist ==
    \/ \E p1 \in PointInputs, p2 \in PointInputs : Distance(p1, p2)

SpecDist == InitLevel /\ [][NextDist]_vars

-----------------------------------------------------------------------------
(* space.py: Object3D.  Python names hold references: heap is the sequence *)
(* of the Coordinate / Orientation objects created so far, an object's     *)
(* identity is its index, and an Object3D holds the identities of its _pos *)
(* and _ori.  A Coordinate's values are in metres, an Orientation's in     *)
(* thousandths.                                                            *)

MaxObjects == 2   \* Object3D instances constructed
MaxCells   == 5   \* Coordinate / Orientation objects created

RefArg(id)    == [kind |-> "ref", id |-> id, vals |-> <<>>]
ListArg(ints) == [kind |-> "list", id |-> 0, vals |-> ints]

ObjOutcome(e, h, id) == [err |-> e, heap |-> h, id |-> id]

(* Coordinate()._type_check(pos): a list of three becomes a new Coordinate, *)
(* a Coordinate (or an Orientation, its subclass) is returned as it is      *)
Coordinate_type_check(h, pos) ==
    IF pos.kind = "list" THEN
        IF Len(pos.vals) # 3 THEN ObjOutcome("ValueError", h, 0)
        ELSE ObjOutcome("", Append(h, [vals |-> pos.vals, kind |-> "Coordinate"]),
                        Len(h) + 1)
    ELSE ObjOutcome("", h, pos.id)

(* Orientation()._type_check(ori): a list of three becomes a new           *)
(* Orientation, an Orientation is returned as it is; for a Coordinate the  *)
(* message of the ValueError reads the unbound local obj                   *)
Orientation_type_check(h, arg) ==
    IF arg.kind = "list" THEN
        IF Len(arg.vals) # 3 THEN ObjOutcome("ValueError", h, 0)
        ELSE ObjOutcome("",
                 Append(h, [vals |-> Orientation__init__(
                                         [i \in 1..3 |-> Fin(1000 * arg.vals[i])]).vals,
                            kind |-> "Orientation"]),
                 Len(h) + 1)
    ELSE IF h[arg.id].kind # "Orientation" THEN ObjOutcome("UnboundLocalError", h, 0)
    ELSE ObjOutcome("", h, arg.id)

(* Object3D.position setter: self._pos = pos, the object it is given *)
position_setter(h, pos) ==
    IF pos.kind # "ref" THEN ObjOutcome("TypeError", h, 0)
    ELSE IF h[pos.id].kind # "Coordinate" THEN ObjOutcome("TypeError", h, 0)
    ELSE ObjOutcome("", h, pos.id)

(* Object3D.orientation setter: a Coordinate is copied into a new          *)
(* Orientation, an Orientation is stored as the object it is               *)
orientation_setter(h, arg) ==
    IF arg.kind # "ref" THEN ObjOutcome("TypeError", h, 0)
    ELSE IF h[arg.id].kind = "Coordinate" THEN
        ObjOutcome("",
            Append(h, [vals |-> Orientation__init__(
                                    [i \in 1..3 |-> Fin(1000 * h[arg.id].vals[i])]).vals,
                       kind |-> "Orientation"]),
            Len(h) + 1)
    ELSE ObjOutcome("", h, arg.id)

(* Object3D.__init__(pos, ori): the identities of _pos and _ori *)
Object3D__init__(h, pos, arg) ==
    LET c1 == Coordinate_type_check(h, pos)
        p  == position_setter(c1.heap, RefArg(c1.id))
        c2 == Orientation_type_check(p.heap, arg)
        o  == orientation_setter(c2.heap, RefArg(c2.id))
    IN  IF c1.err # "" THEN [err |-> c1.err, heap |-> h, pos |-> 0, ori |-> 0]
        ELSE IF p.err # "" THEN [err |-> p.err, heap |-> h, pos |-> 0, ori |-> 0]
        ELSE IF c2.err # "" THEN [err |-> c2.err, heap |-> h, pos |-> 0, ori |-> 0]
        ELSE IF o.err # "" THEN [err |-> o.err, heap |-> h, pos |-> 0, ori |-> 0]
        ELSE [err |-> "", heap |-> o.heap, pos |-> p.id, ori |-> o.id]

(* The caller's own objects: c = Coordinate(...), o = Orientation(...) *)
Caller == [c |-> 1, o |-> 2]

ObjInputs == {0, 1}
ObjArgs   == {RefArg(Caller.c), RefArg(Caller.o), ListArg(<<0, 1, 0>>)}

InitObj ==
    /\ \E x \in ObjInputs, y \in ObjInputs :
           heap = << [vals |-> <<x, y, 0>>, kind |-> "Coordinate"],
                     [vals |-> Orientation__init__(<<Fin(1000), Fin(1000 * y), Fin(0)>>).vals,
                      kind |-> "Orientation"] >>
    /\ objs = <<>>
    /\ objLast = [err |-> "", op |-> "caller"]
    /\ air = DefaultAir /\ airLast = NoAirCall /\ recalc = NoRecalc
    /\ ori = NoOri /\ oriLast = NoOriCall /\ oriOps = 0
    /\ lvl = NoLvl
    /\ src = NoSource /\ grid = NoGrid /\ gridCall = NoGridCall /\ last = NoCall
    /\ round = NewRound(src, grid)

notObjVars == <<airVars, oriVars, lvl, recVars>>

(* Object3D(pos, ori) *)
NewObject3D(pos, arg) ==
    /\ Len(objs) < MaxObjects
    /\ Len(heap) + 2 <= MaxCells
    /\ \E r \in {Object3D__init__(heap, pos, arg)} :
           /\ heap' = r.heap
           /\ objs' = IF r.err = "" THEN Append(objs, [ori |-> r.ori, pos |-> r.pos])
                                    ELSE objs
           /\ objLast' = [err |-> r.err, op |-> "__init__"]
    /\ UNCHANGED notObjVars

(* obj.position = pos *)
SetPosition(a, pos) ==
    /\ \E r \in {position_setter(heap, pos)} :
           /\ heap' = r.heap
           /\ objs' = IF r.err = "" THEN [objs EXCEPT ![a].pos = r.id] ELSE objs
           /\ objLast' = [err |-> r.err, op |-> "position"]
    /\ UNCHANGED notObjVars

(* obj.orientation = ori *)
SetOrientation(a, arg) ==
    /\ Len(heap) < MaxCells
    /\ \E r \in {orientation_setter(heap, arg)} :
           /\ heap' = r.heap
           /\ objs' = IF r.err = "" THEN [objs EXCEPT ![a].ori = r.id] ELSE objs
           /\ objLast' = [err |-> r.err, op |-> "orientation"]
    /\ UNCHANGED notObjVars

(* The caller assigns to c.x (its Coordinate) or o.x (its Orientation):    *)
(* Coordinate.x setter on the caller's object                              *)
CallerAssignX(id, value) ==
    /\ heap' = [heap EXCEPT ![id].vals[1] =
                   IF heap[id].kind = "Coordinate" THEN value ELSE Fin(1000 * value)]
    /\ objLast' = [err |-> "", op |-> "caller"]
    /\ UNCHANGED objs
    /\ UNCHANGED notObjVars

NextObj ==
    \/ \E pos \in ObjArgs, arg \in ObjArgs : NewObject3D(pos, arg)
    \/ \E a \in 1..Len(objs), pos \in ObjArgs : SetPosition(a, pos)
    \/ \E a \in 1..Len(objs), arg \in ObjArgs : SetOrientation(a, arg)
    \/ \E id \in {Caller.c, Caller.o}, v \in ObjInputs : CallerAssignX(id, v)

SpecObj == InitObj /\ [][NextObj]_vars

-----------------------------------------------------------------------------
(* Properties of the receivers and the grid (Spec)                         *)

(* C1: Receiver.ground_distance_from_source and Receiver.spl_from_source   *)
(* leave the position (x, y, z) of the source and of every receiver as it  *)
(* was before the call.                                                    *)
C1_EvaluationKeepsPositions ==
    [][(last'.op \in {"ground_distance_from_source", "spl_from_source"})
           => (src'.pos = src.pos /\ grid'.recsgrids = grid.recsgrids)]_vars

(* The levels eval_spl gives, row by row, for the grid and the source as   *)
(* they were when the round of per-receiver evaluations began              *)
SequentialRound ==
    eval_spl([grid EXCEPT !.recsgrids = round.recs],
             [src EXCEPT !.pos = round.src], air)

-----------------------------------------------------------------------------
(* Properties of the Air (SpecAir)                                         *)

(* C4: in every state after construction, both absorption arrays exist     *)
(* and have the length of Air.frequencies, band for band.                  *)
C4_AbsorptionAligned ==
    /\ absorption(air, "1/m").err = ""
    /\ absorption(air, "dB/m").err = ""
    /\ Len(absorption(air, "1/m").val) = Len(air.freqs)
    /\ Len(absorption(air, "dB/m").val) = Len(air.freqs)

(* C5: a temperature outside [0, 50], a humidity outside [0, 100] or an    *)
(* atmPressure outside [90000, 115000], assigned or given to the           *)
(* constructor, raises ValueError and leaves the Air as it was; a value in *)
(* the range, the boundaries included, is stored without error.            *)
C5_RangeChecked ==
    [][/\ (airLast'.op = "temperature" /\ airLast'.args[1].num) =>
              IF airLast'.args[1].v < 0 \/ airLast'.args[1].v > 50
              THEN airLast'.err = "ValueError" /\ air' = air
              ELSE airLast'.err = "" /\ air'.temp = airLast'.args[1].v
       /\ (airLast'.op = "humidity" /\ airLast'.args[1].num) =>
              IF airLast'.args[1].v < 0 \/ airLast'.args[1].v > 100
              THEN airLast'.err = "ValueError" /\ air' = air
              ELSE airLast'.err = "" /\ air'.hum = airLast'.args[1].v
       /\ (airLast'.op = "atmPressure" /\ airLast'.args[1].num) =>
              IF airLast'.args[1].v < 90000 \/ airLast'.args[1].v > 115000
              THEN airLast'.err = "ValueError" /\ air' = air
              ELSE airLast'.err = "" /\ air'.atm = airLast'.args[1].v
       /\ (airLast'.op = "__init__") =>
              IF \/ airLast'.args[1].v < 0 \/ airLast'.args[1].v > 50
                 \/ airLast'.args[2].v < 0 \/ airLast'.args[2].v > 100
                 \/ airLast'.args[3].v < 90000 \/ airLast'.args[3].v > 115000
              THEN airLast'.err = "ValueError" /\ air' = air
              ELSE /\ airLast'.err = ""
                   /\ air'.temp = airLast'.args[1].v
                   /\ air'.hum = airLast'.args[2].v
                   /\ air'.atm = airLast'.args[3].v
      ]_vars

(* A boundary temperature is stored and a later out-of-range assignment    *)
(* has just been refused                                                   *)
C5_Witness ==
    /\ airLast.op = "temperature" /\ airLast.args = <<Number(51)>>
    /\ airLast.err = "ValueError"
    /\ air.temp = 50

(* C6: a successful assignment of temperature, humidity or atmPressure     *)
(* changes that base field alone: the derived properties, the absorption   *)
(* arrays, the frequencies and the other two base fields keep their        *)
(* values.                                                                 *)
C6_SetterChangesOneField ==
    [][(airLast'.err = "" /\ airLast'.op \in {"temperature", "humidity", "atmPressure"})
           => /\ air'.props = air.props
              /\ air'.freqs = air.freqs
              /\ airLast'.op # "temperature" => air'.temp = air.temp
              /\ airLast'.op # "humidity" => air'.hum = air.hum
              /\ airLast'.op # "atmPressure" => air'.atm = air.atm]_vars

(* A humidity has just been assigned and the derived properties are not    *)
(* the ones a recalculation would give                                     *)
C6_Witness ==
    /\ airLast.op = "humidity" /\ airLast.err = ""
    /\ air.props.hasAbsorb
    /\ air.props # calc_absorption(calc_properties(air), air.freqs).props

(* C7: with the base parameters and the frequencies unchanged, a second    *)
(* (or later) calc_properties() followed by calc_absorption(frequencies)   *)
(* leaves the derived properties, both absorption arrays and the           *)
(* frequencies as the first recalculation left them.                       *)
C7_RecalculationIdempotent ==
    (recalc.n >= 2 /\ ~recalc.half) =>
        (air.props = recalc.props /\ air.freqs = recalc.freqs)

(* A second recalculation with unchanged inputs has just completed *)
C7_Witness ==
    /\ recalc.n >= 2 /\ ~recalc.half
    /\ airLast.op = "calc_absorption"
    /\ air.props.hasAbsorb

-----------------------------------------------------------------------------
(* Properties of the Orientation (SpecOri)                                 *)

(* C8: an Orientation whose components are numbers has unit length,        *)
(* x^2 + y^2 + z^2 = 1 (to the precision of the thousandths: within 0.002) *)
(* after construction and after every update.                              *)
C8_UnitLength ==
    (\A i \in 1..3 : IsFin(ori[i])) =>
        \E n2 \in {ori[1].v * ori[1].v + ori[2].v * ori[2].v + ori[3].v * ori[3].v} :
            998000 <= n2 /\ n2 <= 1002000

(* C9: a construction, += or -= that normalises the zero vector (its       *)
(* divisor is 0) ends in an error.                                         *)
C9_ZeroDirectionRejected ==
    (oriLast.op \in {"__init__", "__iadd__", "__isub__"} /\ oriLast.div = Fin(0))
        => oriLast.err # ""

-----------------------------------------------------------------------------
(* Properties of the level formulas (SpecLevel)                            *)

(* the argument the formula takes the logarithm of, or divides by *)
CheckedArgument ==
    CASE lvl.fn \in {"spl_from_pressure", "swl_from_power",
                     "sil_from_intensity", "divergence"} -> lvl.args[1]
      [] lvl.fn = "intensity_from_power"                 -> lvl.args[2]
      [] lvl.fn = "spl_from_swl"                         -> lvl.args[3]
      [] OTHER                                           -> 1

(* C10: spl_from_pressure, swl_from_power, sil_from_intensity called with  *)
(* a value <= 0, and divergence, intensity_from_power, spl_from_swl called *)
(* with a distance <= 0, end in an error and return no value.              *)
C10_NonPositiveRejected ==
    (lvl.fn # "none" /\ CheckedArgument <= 0) => lvl.out.err # ""

-----------------------------------------------------------------------------
(* Properties of Object3D (SpecObj)                                        *)

(* the values of an Object3D's position and orientation *)
PositionOf(a)    == heap[objs[a].pos].vals
OrientationOf(a) == heap[objs[a].ori].vals

(* C11: an assignment by the caller to its own Coordinate or Orientation   *)
(* changes no Object3D's position or orientation, and no two Object3D      *)
(* instances have the same object as position or as orientation.           *)
C11_ExclusiveOwnership ==
    [][/\ (objLast'.op = "caller") =>
              \A a \in 1..Len(objs) : /\ PositionOf(a)' = PositionOf(a)
                                      /\ OrientationOf(a)' = OrientationOf(a)
       /\ \A a, b \in 1..Len(objs') :
              a # b => /\ objs'[a].pos # objs'[b].pos
                       /\ objs'[a].ori # objs'[b].ori
      ]_vars

-----------------------------------------------------------------------------
(* Properties of the grid's layout (SpecGrid)                              *)

(* ceil(a / b) for b > 0 *)
CeilDiv(a, b) == 0 - ((0 - a) \div b)

GridShape(g, c) ==
    /\ Len(g.recsgrids) = CeilDiv(c.maxy - c.miny, c.dy)
    /\ \A i \in 1..Len(g.recsgrids) :
           Len(g.recsgrids[i]) = CeilDiv(c.maxx - c.minx, c.dx)

(* C12: for a rectangle with maxx >= minx and maxy >= miny, after the      *)
(* construction and after every later call the grid has ceil((maxy -       *)
(* miny) / dy) rows of ceil((maxx - minx) / dx) receivers each; and right  *)
(* after generate_grid() every receiver is the new one at (xs[j], ys[i],   *)
(* z), whatever the receivers were before.                                 *)
C12_GridShape ==
    [][/\ (gridCall.maxx >= gridCall.minx /\ gridCall.maxy >= gridCall.miny) =>
              /\ GridShape(grid, gridCall)
              /\ GridShape(grid', gridCall')
       /\ (last'.op = "generate_grid") =>
              \A idx \in GridIndex(grid') :
                  grid'.recsgrids[idx[1]][idx[2]] =
                      <<grid.xs[idx[2]], grid.ys[idx[1]], gridCall.z>>
      ]_vars

(* a grid of 2 rows and 2 columns made with steps that do not divide the   *)
(* sides, regenerated after an evaluation                                  *)
C12_Witness ==
    /\ last.op = "generate_grid"
    /\ src.pos[3] = 0
    /\ gridCall.maxx - gridCall.minx = 3 /\ gridCall.dx = 2
    /\ gridCall.maxy - gridCall.miny = 3 /\ gridCall.dy = 2
    /\ GridRows(grid) = 2 /\ GridCols(grid) = 2

(* the source as the receiver in row i, column j finds it during eval_spl: *)
(* as passed for the first receiver, as the evaluations before left it for *)
(* the others                                                              *)
SourceAtTurn(i, j) ==
    IF i = 1 /\ j = 1 THEN src ELSE [src EXCEPT !.pos = ZeroAxis(src.pos, "xy")]

-----------------------------------------------------------------------------
(* Properties of the levels of a receiver (Spec)                           *)

-----------------------------------------------------------------------------
(* Properties of the ground term (SpecAtt)                                 *)

(* q (in thousandths) is 0 up to d = 30*(hr + hs) and beyond it the value  *)
(* of 1 - 30*(hr + hs)/d, rounded up to the next thousandth; Am is -3q in  *)
(* the first band and -3q(1 - Gm) in the other seven (in hundredths of a   *)
(* decibel), and 0 in every band at d = 0                                  *)
GroundTermAsDocumented ==
    LET hr == lvl.args[1]
        hs == lvl.args[2]
        d  == lvl.args[3]
        Gm == lvl.args[4]
        m  == 3000 * (hr + hs)
        qq == lvl.out.val.q
        Am == lvl.out.val.Am
    IN  /\ (d <= m) => qq = 0
        /\ (d > m) => /\ 1000 * (d - m) <= qq * d
                      /\ qq * d < 1000 * (d - m) + d
        /\ Len(Am) = 8
        /\ Am[1] = 0 - (3 * qq) \div 10
        /\ \A i \in 2..8 : Am[i] = 0 - (3 * qq * (10 - Gm)) \div 100
        /\ (d = 0) => \A i \in 1..8 : Am[i] = 0

(* C16, as stated: the ground term follows the documented q and Am, and    *)
(* q is at least 0 and less than 1.                                        *)
C16_QBelowOne ==
    (lvl.fn = "ground") =>
        /\ GroundTermAsDocumented
        /\ 0 <= lvl.out.val.q /\ lvl.out.val.q < 1000

(* C16, amended: the ground term follows the documented q and Am, q is at  *)
(* least 0 and at most 1, and it is 1 exactly when both heights are 0 and  *)
(* d > 0.                                                                  *)
C16_QAtMostOne ==
    (lvl.fn = "ground") =>
        /\ GroundTermAsDocumented
        /\ 0 <= lvl.out.val.q /\ lvl.out.val.q <= 1000
        /\ (lvl.out.val.q = 1000) <=>
               (lvl.args[1] + lvl.args[2] = 0 /\ lvl.args[3] > 0)

(* the ground term past d = 30*(hr + hs), with a q strictly between 0 and  *)
(* 1 and a middle region that is neither hard nor porous                   *)
C16_Witness ==
    /\ lvl.fn = "ground"
    /\ lvl.args[3] > 3000 * (lvl.args[1] + lvl.args[2])
    /\ 0 < lvl.out.val.q /\ lvl.out.val.q < 1000
    /\ lvl.args[4] = 5
    /\ lvl.out.val.Am[1] # lvl.out.val.Am[2]

-----------------------------------------------------------------------------
(* Properties of distance (SpecDist)                                       *)

(* C17: distance(p, p) is 0, distance(p1, p2) is distance(p2, p1), and     *)
(* when distance returns p1 and p2 have the values they were given with.   *)
C17_DistanceSymmetric ==
    (lvl.fn = "distance") =>
        /\ (lvl.args[1] = lvl.args[2]) => lvl.out.val.dist = 0
        /\ lvl.out.val.dist = distance_call(lvl.args[2], lvl.args[1]).dist
        /\ lvl.out.val.p1 = lvl.args[1]
        /\ lvl.out.val.p2 = lvl.args[2]

(* the distance between two different points, neither of them the origin,  *)
(* that differ in all three coordinates                                    *)
C17_Witness ==
    /\ lvl.fn = "distance"
    /\ \A i \in 1..3 : lvl.args[1][i] # lvl.args[2][i]
    /\ lvl.args[1] # <<0, 0, 0>> /\ lvl.args[2] # <<0, 0, 0>>
    /\ lvl.out.val.dist > 0

-----------------------------------------------------------------------------
(* Properties of the conversions back from levels (SpecLevel)              *)

(* the level before rounding, for the call recorded in lvl *)
UnroundedLevel ==
    IF lvl.fn = "pressure_from_spl" THEN spl_unrounded(lvl.args[1])
    ELSE Fin(Log10m(lvl.args[1], 1) + 6000)

(* C18: a pressure, power or intensity converted to its level and back is  *)
(* the value it was to within a relative error of 1e-6, and the level it   *)
(* passes through is the unrounded one.                                    *)
C18_RoundTripExact ==
    (lvl.fn \in {"pressure_from_spl", "power_from_swl", "intensity_from_sil"}) =>
        /\ (lvl.out.val.back - lvl.args[1]) * 1000000 <= lvl.args[1]
        /\ (lvl.args[1] - lvl.out.val.back) * 1000000 <= lvl.args[1]
        /\ lvl.out.val.level = UnroundedLevel

-----------------------------------------------------------------------------
(* Properties of the geometry of spl_from_source (Spec)                    *)

(* C19: the source height and the receiver height spl_from_source passes   *)
(* to spl_from_swl are the z the source and the receiver had when it was   *)
(* called, and the distance it passes is the distance between the          *)
(* positions they had then.                                                *)
C19_RealHeightsPassed ==
    [][(last'.op = "spl_from_source") =>
           LET recpos == grid.recsgrids[last'.i][last'.j]
               g      == GeometryPassed(recpos, src.pos)
           IN  /\ g.srch = src.pos[3]
               /\ g.rech = recpos[3]
               /\ g.dist = distance(recpos, src.pos)
      ]_vars

====
